---- MODULE Spec2Model ----
(***************************************************************************)
(* Model of src/bulk_processor.py: the BulkProcessor job registry          *)
(* (self.jobs guarded by self.lock), the per-job worker thread             *)
(* (_process_job), get_job_status and cleanup_old_jobs.                    *)
(*                                                                         *)
(* Python objects are modelled as a heap: `heap` is the sequence of job    *)
(* dicts ever built by create_job, a dict's identity is its index, and     *)
(* self.jobs maps a job id to such an index.  A worker's local `job` and   *)
(* the value get_job_status returns are indices too, i.e. references.      *)
(* A `with self.lock:` block of k writes is k steps, the first taking the  *)
(* lock and the last releasing it, because a reader that holds a           *)
(* reference reads the dict without the lock.                              *)
(*                                                                         *)
(* The functions of src/csv_parser.py are operators over strings, a string *)
(* being the sequence of its characters; CsvSpec applies them to the       *)
(* inputs its initial states enumerate.                                    *)
(***************************************************************************)
EXTENDS Integers, Sequences, FiniteSets, TLC

\* ---- bounds of the model ----
\* create_job calls and URLs submitted over all of them, in a run with
\* concurrent jobs
MaxCreates == 2
MaxUrls == 2
\* URLs of the job, payloads in which the Diagnoser signals an issue, and
\* failures of the result-persistence step, in a run with a single job
MaxSingleUrls == 3
MaxIssues == 1
MaxSaveFailures == 1
\* URLs the caller appends to the list it passed to create_job, in a run in
\* which the caller goes on using that list
MaxAppends == 1
\* clock ticks, and the largest max_age_hours given to cleanup_old_jobs
MaxClock == 2
MaxAgeHours == 1
\* the scale of the clock: ticks in a millisecond (the resolution of a job id)
\* and in an hour (the unit of max_age_hours)
TicksPerMilli == 2
TicksPerHour == 2
\* columns of a CSV header row
MaxHeaders == 3
\* lines of a CSV file given to parse_csv_file (the header line included),
\* and cells of one line
MaxLines == 3
MaxCells == 2

\* ---- Python's None, for a reference, a timestamp, a URL, a return value ----
NoneRef == 0
NoneTime == -1
NoneUrl == <<>>
NoneVal == [tag |-> "None"]
IntVal(n) == [tag |-> "int", val |-> n]
\* no call made yet
NotCalled == 0 - 1
NotCalledVal == [tag |-> "not called"]
\* no file given to the parser
NoReader == [sniffed |-> FALSE, lines |-> <<>>]

VARIABLES
    now,            \* the wall clock (time.time() / datetime.now()), in ticks
    heap,           \* every job dict built so far; index = object identity
    jobs,           \* self.jobs: job id -> reference into heap, NoneRef if absent
    lock,           \* self.lock: 0 when free, else the worker holding it
    wpc,            \* per worker thread: position in _process_job
    wid,            \* per worker thread: the job_id argument
    wjob,           \* per worker thread: local `job` (a reference)
    widx,           \* per worker thread: local `idx`
    wres,           \* per worker thread: local `result`
    werr,           \* per worker thread: local `error_msg`
    held,           \* the value the last get_job_status call returned
    cleanupRemoved, \* the last cleanup_old_jobs call: its jobs_to_remove
    cleanupRet,     \* the last cleanup_old_jobs call: the value it returned
    budget,         \* what the callers and the collaborators may still do
    headers,        \* csv_parser: the header row given to find_url_column
    url_column_idx, \* csv_parser: the value find_url_column returned
    reader,         \* csv_parser: the file given to parse_csv_file, as csv.reader sees it
    parsed          \* csv_parser: what parse_csv_file returned or raised

\* what the callers of get_job_status and cleanup_old_jobs last got
callerVars == <<held, cleanupRemoved, cleanupRet>>

\* the state of the CSV parser's functions, and that of the BulkProcessor
csvVars == <<headers, url_column_idx, reader, parsed>>
bulkVars == <<now, heap, jobs, lock, wpc, wid, wjob, widx, wres, werr,
              held, cleanupRemoved, cleanupRet, budget>>

vars == <<now, heap, jobs, lock, wpc, wid, wjob, widx, wres, werr,
          held, cleanupRemoved, cleanupRet, budget, headers, url_column_idx,
          reader, parsed>>

Workers == 1..MaxCreates
\* job ids are f"job_{int(time.time() * 1000)}": one id per millisecond
JobIds == 0..(MaxClock \div TicksPerMilli)
\* the URL list submitted by the k-th create call: n URLs, distinct per call
UrlOf(k, i) == <<k, i>>
UrlList(k, n) == [i \in 1..n |-> UrlOf(k, i)]

\* A run is either one of concurrent jobs, in which of the collaborators only
\* the Diagnoser fails, or one of a single longer job, in which the
\* ObservationGenerator and the persistence step take part and fail too.
\* In two further runs of a single job the caller appends to the list it
\* submitted, and sys.stdout cannot take what the worker prints (a closed
\* pipe, an encoding without the characters of the URLs).
Scenarios ==
    {[creates |-> MaxCreates, urls |-> MaxUrls, issues |-> 0, saveFailures |-> 0,
      appends |-> 0, stdoutOk |-> TRUE],
     [creates |-> 1, urls |-> MaxSingleUrls, issues |-> MaxIssues,
      saveFailures |-> MaxSaveFailures, appends |-> 0, stdoutOk |-> TRUE],
     [creates |-> 1, urls |-> MaxUrls, issues |-> 0, saveFailures |-> 0,
      appends |-> MaxAppends, stdoutOk |-> TRUE],
     [creates |-> 1, urls |-> MaxUrls, issues |-> 0, saveFailures |-> 0,
      appends |-> 0, stdoutOk |-> FALSE]}

\* the fields of `result` the worker itself writes: the optional observation
\* and the saved flag ('vulnerability_detected' is read once, in Diagnose)
NoResult == [technical_observation |-> FALSE, saved |-> FALSE]
NoError == ""

\* the dict literal of create_job
NewJob(job_id, urls, generate_observations, t) ==
    [job_id |-> job_id,
     urls |-> urls,
     total |-> Len(urls),
     completed |-> 0,
     successful |-> 0,
     failed |-> 0,
     current_url |-> NoneUrl,
     status |-> "queued",
     results |-> <<>>,
     errors |-> <<>>,
     started_at |-> t,
     completed_at |-> NoneTime,
     generate_observations |-> generate_observations]

Init ==
    /\ now = 0
    /\ heap = <<>>
    /\ jobs = [id \in JobIds |-> NoneRef]
    /\ lock = 0
    /\ wpc = [w \in Workers |-> "unborn"]
    /\ wid = [w \in Workers |-> 0]
    /\ wjob = [w \in Workers |-> NoneRef]
    /\ widx = [w \in Workers |-> 0]
    /\ wres = [w \in Workers |-> NoResult]
    /\ werr = [w \in Workers |-> NoError]
    /\ held = NotCalled
    /\ cleanupRemoved = {}
    /\ cleanupRet = NotCalledVal
    /\ budget \in Scenarios
    /\ headers = <<>>
    /\ url_column_idx = NotCalledVal
    /\ reader = NoReader
    /\ parsed = NotCalledVal

\* the clock advances
Tick ==
    /\ now < MaxClock
    /\ now' = now + 1
    /\ UNCHANGED <<csvVars, heap, jobs, lock, wpc, wid, wjob, widx, wres, werr, callerVars, budget>>

\* job_id = f"job_{int(time.time() * 1000)}": the clock cut to whole
\* milliseconds (the "job_" prefix is the same for all ids)
JobIdAt(t) == t \div TicksPerMilli

\* create_job(urls, generate_observations): store the record under the lock,
\* start the worker thread, return the id (kept in wid of the new worker).
\* generate_observations is enumerated in the runs in which a payload can
\* signal an issue: in the others line 82 never gets past the flag.
CreateJob(n, generate_observations) ==
    /\ budget.creates > 0
    /\ n <= budget.urls
    /\ generate_observations => budget.issues > 0
    /\ budget' = [budget EXCEPT !.creates = @ - 1, !.urls = @ - n]
    /\ lock = 0
    /\ LET k == Len(heap) + 1
           job_id == JobIdAt(now)
       IN /\ heap' = Append(heap, NewJob(job_id, UrlList(k, n), generate_observations, now))
          /\ jobs' = [jobs EXCEPT ![job_id] = k]
          /\ wpc' = [wpc EXCEPT ![k] = "start"]
          /\ wid' = [wid EXCEPT ![k] = job_id]
    /\ UNCHANGED <<csvVars, now, lock, wjob, widx, wres, werr, callerVars>>

\* 'urls': urls stores the caller's list object, not a copy: what the caller
\* appends to its list afterwards is in job['urls'] too, and the worker's
\* iterator reaches it if the loop has not ended
CallerAppendsUrl(j) ==
    /\ j \in 1..Len(heap)
    /\ budget.appends > 0
    /\ budget' = [budget EXCEPT !.appends = @ - 1]
    /\ heap' = [heap EXCEPT ![j].urls = Append(@, UrlOf(j, Len(@) + 1))]
    /\ UNCHANGED <<csvVars, now, jobs, lock, wpc, wid, wjob, widx, wres, werr, callerVars>>

\* the head of `for idx, url in enumerate(urls, 1)`: the next position, or the
\* completion block once the list is exhausted
LoopHead(j, idx) == IF idx <= Len(heap[j].urls) THEN "set_current" ELSE "fin_status"

\* _process_job, first block: look the job up, set status 'processing'
WorkerStart(w) ==
    /\ wpc[w] = "start"
    /\ lock = 0
    /\ IF jobs[wid[w]] = NoneRef
       THEN /\ wpc' = [wpc EXCEPT ![w] = "returned"]
            /\ UNCHANGED <<heap, wjob, widx>>
       ELSE LET j == jobs[wid[w]] IN
            /\ wjob' = [wjob EXCEPT ![w] = j]
            /\ heap' = [heap EXCEPT ![j].status = "processing"]
            /\ widx' = [widx EXCEPT ![w] = 1]
            /\ wpc' = [wpc EXCEPT ![w] = LoopHead(j, 1)]
    /\ UNCHANGED <<csvVars, now, jobs, lock, wid, wres, werr, callerVars, budget>>

Url(w) == heap[wjob[w]].urls[widx[w]]

\* with self.lock: job['current_url'] = url
SetCurrentUrl(w) ==
    /\ wpc[w] = "set_current"
    /\ lock = 0
    /\ lock' = w
    /\ heap' = [heap EXCEPT ![wjob[w]].current_url = Url(w)]
    /\ wpc' = [wpc EXCEPT ![w] = "set_completed"]
    /\ UNCHANGED <<csvVars, now, jobs, wid, wjob, widx, wres, werr, callerVars, budget>>

\* the message of the exception print raises when sys.stdout fails
PrintFailed == "print failed"

\* the progress write with the lock kept through the print and the calls
\* that follow it
SetCompletedBeforeHoldingLock(w) ==
    /\ wpc[w] = "set_completed"
    /\ lock = w
    /\ heap' = [heap EXCEPT ![wjob[w]].completed = widx[w] - 1]
    /\ IF budget.stdoutOk
       THEN /\ wpc' = [wpc EXCEPT ![w] = "diagnose"]
            /\ UNCHANGED werr
       ELSE /\ wpc' = [wpc EXCEPT ![w] = "err_results"]
            /\ werr' = [werr EXCEPT ![w] = PrintFailed]
    /\ UNCHANGED <<csvVars, now, jobs, lock, wid, wjob, widx, wres, callerVars, budget>>

\* job['completed'] = idx - 1, the lock is released, and the progress line is
\* printed (line 76, inside the try): if print raises, the handler takes over
SetCompletedBefore(w) ==
    /\ wpc[w] = "set_completed"
    /\ lock = w
    /\ lock' = 0
    /\ heap' = [heap EXCEPT ![wjob[w]].completed = widx[w] - 1]
    /\ IF budget.stdoutOk
       THEN /\ wpc' = [wpc EXCEPT ![w] = "diagnose"]
            /\ UNCHANGED werr
       ELSE /\ wpc' = [wpc EXCEPT ![w] = "err_results"]
            /\ werr' = [werr EXCEPT ![w] = PrintFailed]
    /\ UNCHANGED <<csvVars, now, jobs, wid, wjob, widx, wres, callerVars, budget>>

\* result = diagnose_site(url): the Diagnoser returns a payload, with or without
\* a detected vulnerability, or raises.  Line 82 reads the detection only when
\* generate_observations is set, so "vulnerable" is enumerated only then.
Diagnose(w) ==
    /\ wpc[w] = "diagnose"
    /\ \E outcome \in {"clean", "vulnerable", "raise"} :
         /\ outcome = "vulnerable" =>
                heap[wjob[w]].generate_observations /\ budget.issues > 0
         /\ budget' = IF outcome = "vulnerable"
                       THEN [budget EXCEPT !.issues = @ - 1] ELSE budget
         /\ IF outcome = "raise"
            THEN /\ werr' = [werr EXCEPT ![w] = "diagnose_site failed"]
                 /\ wpc' = [wpc EXCEPT ![w] = "err_results"]
                 /\ UNCHANGED wres
            ELSE /\ wres' = [wres EXCEPT ![w] = NoResult]
                 /\ wpc' = [wpc EXCEPT ![w] =
                       IF outcome = "vulnerable" THEN "observe" ELSE "persist"]
                 /\ UNCHANGED werr
    /\ UNCHANGED <<csvVars, now, heap, jobs, lock, wid, wjob, widx, callerVars>>

\* the observation step without its try/except: a failure of the generator
\* reaches the per-URL handler
ObserveOrFail(w) ==
    /\ wpc[w] = "observe"
    /\ \E got \in BOOLEAN :
         IF got
         THEN /\ wres' = [wres EXCEPT ![w].technical_observation = TRUE]
              /\ wpc' = [wpc EXCEPT ![w] = "persist"]
              /\ UNCHANGED werr
         ELSE /\ werr' = [werr EXCEPT ![w] = "observation failed"]
              /\ wpc' = [wpc EXCEPT ![w] = "err_results"]
              /\ UNCHANGED wres
    /\ UNCHANGED <<csvVars, now, heap, jobs, lock, wid, wjob, widx, callerVars, budget>>

\* observation = generate_technical_observation(result), inside try/except:
\* a text is stored, or (None returned, or an exception swallowed) nothing is
Observe(w) ==
    /\ wpc[w] = "observe"
    /\ \E got \in BOOLEAN :
         wres' = [wres EXCEPT ![w].technical_observation = got]
    /\ wpc' = [wpc EXCEPT ![w] = "persist"]
    /\ UNCHANGED <<csvVars, now, heap, jobs, lock, wid, wjob, widx, werr, callerVars, budget>>

\* "Save to file": urlparse / os.makedirs are outside the inner try and may
\* raise into the per-URL handler; open / json.dump are inside it
Persist(w) ==
    /\ wpc[w] = "persist"
    /\ \E outcome \in {"prepare_raises", "save_raises", "saved"} :
         /\ outcome # "saved" => budget.saveFailures > 0
         /\ budget' = IF outcome # "saved"
                       THEN [budget EXCEPT !.saveFailures = @ - 1] ELSE budget
         /\ IF outcome = "prepare_raises"
            THEN /\ werr' = [werr EXCEPT ![w] = "save preparation failed"]
                 /\ wpc' = [wpc EXCEPT ![w] = "err_results"]
                 /\ wres' = [wres EXCEPT ![w] = NoResult]
            ELSE /\ wres' = [wres EXCEPT ![w].saved = (outcome = "saved")]
                 /\ wpc' = [wpc EXCEPT ![w] = "ok_results"]
                 /\ UNCHANGED werr
    /\ UNCHANGED <<csvVars, now, heap, jobs, lock, wid, wjob, widx, callerVars>>

SuccessOutcome(url, result) == [url |-> url, status |-> "success", result |-> result]
ErrorOutcome(url, error_msg) == [url |-> url, status |-> "error", error |-> error_msg]
ErrorEntry(url, error_msg) == [url |-> url, error |-> error_msg]

\* with self.lock: job['results'].append({... 'status': 'success' ...})
OkAppendResult(w) ==
    /\ wpc[w] = "ok_results"
    /\ lock = 0
    /\ lock' = w
    /\ heap' = [heap EXCEPT ![wjob[w]].results = Append(@, SuccessOutcome(Url(w), wres[w]))]
    /\ wpc' = [wpc EXCEPT ![w] = "ok_successful"]
    /\ wres' = [wres EXCEPT ![w] = NoResult]
    /\ UNCHANGED <<csvVars, now, jobs, wid, wjob, widx, werr, callerVars, budget>>

\* job['successful'] += 1
OkIncSuccessful(w) ==
    /\ wpc[w] = "ok_successful"
    /\ lock = w
    /\ heap' = [heap EXCEPT ![wjob[w]].successful = @ + 1]
    /\ wpc' = [wpc EXCEPT ![w] = "ok_completed"]
    /\ UNCHANGED <<csvVars, now, jobs, lock, wid, wjob, widx, wres, werr, callerVars, budget>>

\* job['completed'] = idx, the lock is released, the loop moves on
OkSetCompleted(w) ==
    /\ wpc[w] = "ok_completed"
    /\ lock = w
    /\ lock' = 0
    /\ heap' = [heap EXCEPT ![wjob[w]].completed = widx[w]]
    /\ widx' = [widx EXCEPT ![w] = @ + 1]
    /\ wpc' = [wpc EXCEPT ![w] = LoopHead(wjob[w], widx[w] + 1)]
    /\ UNCHANGED <<csvVars, now, jobs, wid, wjob, wres, werr, callerVars, budget>>

\* except Exception: the error line is printed (line 123); then
\* with self.lock: job['results'].append({... 'status': 'error' ...}).
\* The handler is not itself guarded: if its print raises, the exception
\* leaves _process_job and the thread ends where it is.
ErrAppendResult(w) ==
    /\ wpc[w] = "err_results"
    /\ IF budget.stdoutOk
       THEN /\ lock = 0
            /\ lock' = w
            /\ heap' = [heap EXCEPT ![wjob[w]].results =
                                      Append(@, ErrorOutcome(Url(w), werr[w]))]
            /\ wpc' = [wpc EXCEPT ![w] = "err_failed"]
       ELSE /\ wpc' = [wpc EXCEPT ![w] = "crashed"]
            /\ UNCHANGED <<heap, lock>>
    /\ UNCHANGED <<csvVars, now, jobs, wid, wjob, widx, wres, werr, callerVars, budget>>

\* job['failed'] += 1
ErrIncFailed(w) ==
    /\ wpc[w] = "err_failed"
    /\ lock = w
    /\ heap' = [heap EXCEPT ![wjob[w]].failed = @ + 1]
    /\ wpc' = [wpc EXCEPT ![w] = "err_completed"]
    /\ UNCHANGED <<csvVars, now, jobs, lock, wid, wjob, widx, wres, werr, callerVars, budget>>

\* job['completed'] = idx
ErrSetCompleted(w) ==
    /\ wpc[w] = "err_completed"
    /\ lock = w
    /\ heap' = [heap EXCEPT ![wjob[w]].completed = widx[w]]
    /\ wpc' = [wpc EXCEPT ![w] = "err_errors"]
    /\ UNCHANGED <<csvVars, now, jobs, lock, wid, wjob, widx, wres, werr, callerVars, budget>>

\* job['errors'].append({...}), the lock is released, the loop moves on
ErrAppendError(w) ==
    /\ wpc[w] = "err_errors"
    /\ lock = w
    /\ lock' = 0
    /\ heap' = [heap EXCEPT ![wjob[w]].errors = Append(@, ErrorEntry(Url(w), werr[w]))]
    /\ werr' = [werr EXCEPT ![w] = NoError]
    /\ widx' = [widx EXCEPT ![w] = @ + 1]
    /\ wpc' = [wpc EXCEPT ![w] = LoopHead(wjob[w], widx[w] + 1)]
    /\ UNCHANGED <<csvVars, now, jobs, wid, wjob, wres, callerVars, budget>>

\* "Mark job as completed": with self.lock: job['status'] = 'completed'
FinishStatus(w) ==
    /\ wpc[w] = "fin_status"
    /\ lock = 0
    /\ lock' = w
    /\ heap' = [heap EXCEPT ![wjob[w]].status = "completed"]
    /\ wpc' = [wpc EXCEPT ![w] = "fin_completed_at"]
    /\ UNCHANGED <<csvVars, now, jobs, wid, wjob, widx, wres, werr, callerVars, budget>>

\* job['completed_at'] = datetime.now().isoformat()
FinishCompletedAt(w) ==
    /\ wpc[w] = "fin_completed_at"
    /\ lock = w
    /\ heap' = [heap EXCEPT ![wjob[w]].completed_at = now]
    /\ wpc' = [wpc EXCEPT ![w] = "fin_current_url"]
    /\ UNCHANGED <<csvVars, now, jobs, lock, wid, wjob, widx, wres, werr, callerVars, budget>>

\* job['current_url'] = None, the lock is released, the thread ends
FinishCurrentUrl(w) ==
    /\ wpc[w] = "fin_current_url"
    /\ lock = w
    /\ lock' = 0
    /\ heap' = [heap EXCEPT ![wjob[w]].current_url = NoneUrl]
    /\ wpc' = [wpc EXCEPT ![w] = "done"]
    /\ UNCHANGED <<csvVars, now, jobs, wid, wjob, widx, wres, werr, callerVars, budget>>

\* a lookup that raises for an unknown id (self.jobs[job_id]) instead of
\* returning None
Raised == 0 - 2
JobsGetOrRaise(job_id) == IF jobs[job_id] = NoneRef THEN Raised ELSE jobs[job_id]

\* self.jobs.get(job_id)
JobsGet(job_id) == jobs[job_id]

\* get_job_status(job_id): with self.lock: return self.jobs.get(job_id)
GetJobStatus(job_id) ==
    /\ lock = 0
    /\ held' = JobsGet(job_id)
    /\ UNCHANGED <<csvVars, now, heap, jobs, lock, wpc, wid, wjob, widx, wres, werr,
                   cleanupRemoved, cleanupRet, budget>>

\* the age test with >= for >
AgeReaches(current_time, completed_at, max_age_hours) ==
    current_time - completed_at >= max_age_hours * TicksPerHour

\* age_hours = (current_time - completed_at).total_seconds() / 3600
\* age_hours > max_age_hours: a division of reals, here multiplied out
AgeExceeds(current_time, completed_at, max_age_hours) ==
    current_time - completed_at > max_age_hours * TicksPerHour

\* the removal test without the status check
ToRemoveAnyStatus(job, current_time, max_age_hours) ==
    current_time - job.completed_at > max_age_hours * TicksPerHour

\* the test that puts a job on jobs_to_remove
ToRemove(job, current_time, max_age_hours) ==
    /\ job.status = "completed"
    /\ AgeExceeds(current_time, job.completed_at, max_age_hours)

\* a cleanup that empties the registry (self.jobs.clear()) after the scan
CleanupOldJobsClearAll(max_age_hours, current_time) ==
    /\ lock = 0
    /\ LET jobs_to_remove == {id \in JobIds : /\ jobs[id] # NoneRef
                                              /\ ToRemove(heap[jobs[id]], current_time, max_age_hours)}
       IN /\ jobs' = [id \in JobIds |-> NoneRef]
          /\ cleanupRemoved' = jobs_to_remove
    /\ cleanupRet' = NoneVal
    /\ UNCHANGED <<csvVars, now, heap, lock, wpc, wid, wjob, widx, wres, werr, held, budget>>

\* cleanup_old_jobs(max_age_hours): current_time is read before the lock is
\* taken, so it is the clock of this or of an earlier instant; the scan and the
\* deletions run under the lock; the function returns nothing
CleanupOldJobs(max_age_hours, current_time) ==
    /\ lock = 0
    /\ LET jobs_to_remove == {id \in JobIds : /\ jobs[id] # NoneRef
                                              /\ ToRemove(heap[jobs[id]], current_time, max_age_hours)}
       IN /\ jobs' = [id \in JobIds |-> IF id \in jobs_to_remove THEN NoneRef ELSE jobs[id]]
          /\ cleanupRemoved' = jobs_to_remove
    /\ cleanupRet' = NoneVal
    /\ UNCHANGED <<csvVars, now, heap, lock, wpc, wid, wjob, widx, wres, werr, held, budget>>

Next ==
    \/ Tick
    \/ \E n \in 0..budget.urls, g \in BOOLEAN : CreateJob(n, g)
    \/ \E j \in Workers : CallerAppendsUrl(j)
    \/ \E w \in Workers : WorkerStart(w)
    \/ \E w \in Workers : SetCurrentUrl(w)
    \/ \E w \in Workers : SetCompletedBefore(w)
    \/ \E w \in Workers : Diagnose(w)
    \/ \E w \in Workers : Observe(w)
    \/ \E w \in Workers : Persist(w)
    \/ \E w \in Workers : OkAppendResult(w)
    \/ \E w \in Workers : OkIncSuccessful(w)
    \/ \E w \in Workers : OkSetCompleted(w)
    \/ \E w \in Workers : ErrAppendResult(w)
    \/ \E w \in Workers : ErrIncFailed(w)
    \/ \E w \in Workers : ErrSetCompleted(w)
    \/ \E w \in Workers : ErrAppendError(w)
    \/ \E w \in Workers : FinishStatus(w)
    \/ \E w \in Workers : FinishCompletedAt(w)
    \/ \E w \in Workers : FinishCurrentUrl(w)
    \/ \E id \in JobIds : GetJobStatus(id)
    \/ \E m \in 0..MaxAgeHours, t \in 0..now : CleanupOldJobs(m, t)

Spec == Init /\ [][Next]_vars

\* the steps of the thread create_job started for the w-th job
WorkerNext(w) ==
    \/ WorkerStart(w)
    \/ SetCurrentUrl(w)
    \/ SetCompletedBefore(w)
    \/ Diagnose(w)
    \/ Observe(w)
    \/ Persist(w)
    \/ OkAppendResult(w)
    \/ OkIncSuccessful(w)
    \/ OkSetCompleted(w)
    \/ ErrAppendResult(w)
    \/ ErrIncFailed(w)
    \/ ErrSetCompleted(w)
    \/ ErrAppendError(w)
    \/ FinishStatus(w)
    \/ FinishCompletedAt(w)
    \/ FinishCurrentUrl(w)

\* Every started thread is scheduled again and again, and every call to a
\* collaborator returns or raises: a worker that can take a step takes one.
FairSpec == Spec /\ \A w \in Workers : WF_vars(WorkerNext(w))

(***************************************************************************)
(* src/csv_parser.py                                                       *)
(***************************************************************************)
\* str.lower() and str.strip(), character by character
UpperCase == <<"A", "B", "C", "D", "E", "F", "G", "H", "I", "J", "K", "L", "M",
               "N", "O", "P", "Q", "R", "S", "T", "U", "V", "W", "X", "Y", "Z">>
LowerCase == <<"a", "b", "c", "d", "e", "f", "g", "h", "i", "j", "k", "l", "m",
               "n", "o", "p", "q", "r", "s", "t", "u", "v", "w", "x", "y", "z">>
LowerChar(c) ==
    IF \E i \in 1..Len(UpperCase) : UpperCase[i] = c
    THEN LowerCase[CHOOSE i \in 1..Len(UpperCase) : UpperCase[i] = c]
    ELSE c
Lower(str) == [i \in 1..Len(str) |-> LowerChar(str[i])]
Whitespace == {" ", "\t", "\n", "\r"}
Strip(str) ==
    LET inked == {i \in 1..Len(str) : str[i] \notin Whitespace}
    IN IF inked = {} THEN <<>>
       ELSE SubSeq(str, CHOOSE i \in inked : \A k \in inked : i <= k,
                        CHOOSE i \in inked : \A k \in inked : i >= k)
\* Python's `sub in str` for strings
Contains(sub, str) ==
    \E i \in 0..(Len(str) - Len(sub)) : SubSeq(str, i + 1, i + Len(sub)) = sub

URL_COLUMN_NAMES ==
    <<
       <<"u", "r", "l">>,
       <<"U", "R", "L">>,
       <<"w", "e", "b", "s", "i", "t", "e">>,
       <<"W", "e", "b", "s", "i", "t", "e">>,
       <<"d", "o", "m", "a", "i", "n">>,
       <<"D", "o", "m", "a", "i", "n">>,
       <<"c", "o", "m", "p", "a", "n", "y", "_", "u", "r", "l">>,
       <<"C", "o", "m", "p", "a", "n", "y", "_", "U", "R", "L">>,
       <<"s", "i", "t", "e">>,
       <<"S", "i", "t", "e">>,
       <<"l", "i", "n", "k">>,
       <<"L", "i", "n", "k">>,
       <<"w", "e", "b", "s", "i", "t", "e", "_", "u", "r", "l">>,
       <<"W", "e", "b", "s", "i", "t", "e", "_", "U", "R", "L">>,
       <<"d", "o", "m", "a", "i", "n", "_", "n", "a", "m", "e">>,
       <<"D", "o", "m", "a", "i", "n", "_", "N", "a", "m", "e">>,
       <<"c", "o", "m", "p", "a", "n", "y", "_", "w", "e", "b", "s", "i", "t", "e">>,
       <<"C", "o", "m", "p", "a", "n", "y", "_", "W", "e", "b", "s", "i", "t", "e">>,
       <<"w", "e", "b", "_", "a", "d", "d", "r", "e", "s", "s">>,
       <<"W", "e", "b", "_", "A", "d", "d", "r", "e", "s", "s">>
    >>
\* the keywords of the inner loop of find_url_column
UrlKeywords ==
    <<<<"u", "r", "l">>,
      <<"w", "e", "b", "s", "i", "t", "e">>,
      <<"d", "o", "m", "a", "i", "n">>,
      <<"l", "i", "n", "k">>,
      <<"s", "i", "t", "e">>>>

\* the test find_url_column makes on one lowered header
IsUrlHeader(header) ==
    \/ \E n \in 1..Len(URL_COLUMN_NAMES) : header = Lower(URL_COLUMN_NAMES[n])
    \/ \E k \in 1..Len(UrlKeywords) : Contains(UrlKeywords[k], header)

\* find_url_column(headers): the 0-based index of the first header that passes
\* the test, and 0 when the loop ends without one
find_url_column(hs) ==
    LET headers_lower == [i \in 1..Len(hs) |-> Lower(Strip(hs[i]))]
        hits == {i \in 1..Len(hs) : IsUrlHeader(headers_lower[i])}
    IN IF hits = {} THEN 0
       ELSE (CHOOSE i \in hits : \A k \in hits : i <= k) - 1

\* the header cells the header rows are made of
SampleHeaders ==
    {<<"u", "r", "l">>,
     <<" ", "U", "R", "L", " ">>,
     <<"W", "e", "b", "_", "A", "d", "d", "r", "e", "s", "s">>,
     <<"n", "a", "m", "e">>,
     <<"e", "m", "a", "i", "l">>,
     <<"w", "e", "b", "l", "i", "n", "k", "s">>}
HeaderRows == UNION {[1..n -> SampleHeaders] : n \in 0..MaxHeaders}

\* str.startswith(prefix)
StartsWith(str, prefix) ==
    Len(str) >= Len(prefix) /\ SubSeq(str, 1, Len(prefix)) = prefix
Http == <<"h", "t", "t", "p", ":", "/", "/">>
Https == <<"h", "t", "t", "p", "s", ":", "/", "/">>
HasProtocol(url) == StartsWith(url, Http) \/ StartsWith(url, Https)

\* the position of the first character of str that is in cs, Len(str) + 1 if
\* there is none
FirstOf(str, cs) ==
    LET at == {i \in 1..Len(str) : str[i] \in cs}
    IN IF at = {} THEN Len(str) + 1 ELSE CHOOSE i \in at : \A k \in at : i <= k

\* urlparse(test_url) for a test_url that starts with http:// or https://:
\* the netloc runs to the first of / ? #, the path from there to the first of
\* ? #, and a netloc with one bracket but not the other is a ValueError
urlparse(test_url) ==
    LET rest == SubSeq(test_url, (IF StartsWith(test_url, Https) THEN 9 ELSE 8), Len(test_url))
        netloc == SubSeq(rest, 1, FirstOf(rest, {"/", "?", "#"}) - 1)
        tail == SubSeq(rest, Len(netloc) + 1, Len(rest))
        path == SubSeq(tail, 1, FirstOf(tail, {"?", "#"}) - 1)
    IN [raised |-> (\E i \in 1..Len(netloc) : netloc[i] = "[")
                       # (\E i \in 1..Len(netloc) : netloc[i] = "]"),
        netloc |-> netloc,
        path |-> path]

\* validate_url(url)
validate_url(url) ==
    IF url = <<>> THEN FALSE
    ELSE LET stripped == Strip(url)
             test_url == IF HasProtocol(stripped) THEN stripped ELSE Https \o stripped
             result == urlparse(test_url)
         IN IF stripped = <<>> THEN FALSE
            ELSE IF result.raised THEN FALSE
            ELSE result.netloc # <<>> \/ result.path # <<>>

\* normalize_url without the protocol it adds
NormalizeUrlStripOnly(url) == IF url = <<>> THEN url ELSE Strip(url)

\* normalize_url(url)
normalize_url(url) ==
    IF url = <<>> THEN url
    ELSE LET stripped == Strip(url)
         IN IF HasProtocol(stripped) THEN stripped ELSE Https \o stripped

\* the loop of parse_csv_file over the rows after the header: the normalized
\* URLs of the rows that have the column and a valid candidate in it
RECURSIVE ExtractUrls(_, _)
ExtractUrls(data_rows, url_column_idx_) ==
    IF data_rows = <<>> THEN <<>>
    ELSE LET row == Head(data_rows)
             url_candidate == Strip(row[url_column_idx_ + 1])
             more == ExtractUrls(Tail(data_rows), url_column_idx_)
         IN IF row # <<>> /\ url_column_idx_ < Len(row)
               /\ url_candidate # <<>> /\ validate_url(url_candidate)
            THEN <<normalize_url(url_candidate)>> \o more
            ELSE more

ValueError(message) == [tag |-> "ValueError", message |-> message]

\* parse_csv_file(file_content), from the point where the content is decoded:
\* the delimiter is sniffed (csv.Error if none is found), the header row is
\* read, the URL column found, the URLs extracted, the metadata built
parse_csv_file(file) ==
    IF ~ file.sniffed THEN ValueError("Invalid CSV format")
    ELSE IF file.lines = <<>> THEN ValueError("CSV file is empty")
    ELSE IF Head(file.lines) = <<>> THEN ValueError("CSV file has no headers")
    ELSE LET hs == Head(file.lines)
             url_column_idx_ == find_url_column(hs)
             urls == ExtractUrls(Tail(file.lines), url_column_idx_)
         IN IF urls = <<>> THEN ValueError("No valid URLs found in CSV file")
            ELSE [tag |-> "returned",
                  urls |-> urls,
                  total_rows |-> Len(file.lines) - 1,
                  url_count |-> Len(urls),
                  url_column_index |-> url_column_idx_]

\* the header rows and the cells the files are made of
FileHeaders == {<<"u", "r", "l">>, <<"n", "a", "m", "e">>}
SampleCells ==
    {<<"a", ".", "c">>,
     <<" ", "h", "t", "t", "p", ":", "/", "/", "b", " ">>,
     <<"H", "T", "T", "P", ":", "/", "/", "c">>,
     <<>>,
     <<"h", "t", "t", "p", ":", "/", "/">>,
     <<"h", "t", "t", "p", ":", "/", "/", "[", "d">>}
CellRows(cells) == UNION {[1..n -> cells] : n \in 0..MaxCells}
\* a file in which a delimiter is found: its lines, none, or a line of header
\* cells and lines of data cells after it
FileOf(ls) == [sniffed |-> TRUE, lines |-> ls]

\* no job is submitted in the runs of the parser
NoBudget == [creates |-> 0, urls |-> 0, issues |-> 0, saveFailures |-> 0,
             appends |-> 0, stdoutOk |-> TRUE]

\* a run of the parser is given a header row, or a file (with reader = NoReader
\* the file is one in which no delimiter is found)
CsvInit ==
    /\ \/ headers \in HeaderRows /\ reader = NoReader
       \/ headers = <<>> /\ reader = FileOf(<<>>)
       \/ /\ headers = <<>>
          /\ \E n \in 0..(MaxLines - 1) :
                \E h \in CellRows(FileHeaders) :
                    \E d \in [1..n -> CellRows(SampleCells)] :
                        reader = FileOf(<<h>> \o d)
    /\ url_column_idx = NotCalledVal
    /\ parsed = NotCalledVal
    /\ now = 0
    /\ heap = <<>>
    /\ jobs = [id \in JobIds |-> NoneRef]
    /\ lock = 0
    /\ wpc = [w \in Workers |-> "unborn"]
    /\ wid = [w \in Workers |-> 0]
    /\ wjob = [w \in Workers |-> NoneRef]
    /\ widx = [w \in Workers |-> 0]
    /\ wres = [w \in Workers |-> NoResult]
    /\ werr = [w \in Workers |-> NoError]
    /\ held = NotCalled
    /\ cleanupRemoved = {}
    /\ cleanupRet = NotCalledVal
    /\ budget = NoBudget

\* url_column_idx = find_url_column(headers)
FindUrlColumn ==
    /\ url_column_idx = NotCalledVal
    /\ url_column_idx' = IntVal(find_url_column(headers))
    /\ UNCHANGED <<headers, reader, parsed, bulkVars>>

\* urls, metadata = parse_csv_file(file_content), or the ValueError it raises
ParseCsvFile ==
    /\ parsed = NotCalledVal
    /\ parsed' = parse_csv_file(reader)
    /\ UNCHANGED <<headers, url_column_idx, reader, bulkVars>>

CsvNext == FindUrlColumn \/ ParseCsvFile

CsvSpec == CsvInit /\ [][CsvNext]_vars

(***************************************************************************)
(* Properties of the registry, the workers and the sweeper                 *)
(***************************************************************************)
\* the create_job calls made so far; the k-th built heap[k] and started worker k
Created == 1..Len(heap)
\* the job dicts self.jobs currently refers to
Registered == {j \in Created : jobs[heap[j].job_id] = j}
Unfinished == {"queued", "processing"}
DiagnoseFailed == "diagnose_site failed"

\* C1: every registered job whose status is completed has
\* successful + failed = completed = total (in the states a reader that
\* takes the lock can see).
C1_CompletedCounts ==
    \A j \in Registered :
        (lock = 0 /\ heap[j].status = "completed") =>
            /\ heap[j].successful + heap[j].failed = heap[j].completed
            /\ heap[j].completed = heap[j].total

\* C2: a completed job's results hold one entry per submitted URL, in
\* submission order, the i-th a success if the Diagnoser succeeded on the i-th
\* URL and an error only if the Diagnoser failed on it.
C2_ResultsFollowUrls ==
    \A j \in Registered :
        (lock = 0 /\ heap[j].status = "completed") =>
            /\ Len(heap[j].results) = heap[j].total
            /\ \A i \in 1..Len(heap[j].results) :
                  /\ i <= Len(heap[j].urls) => heap[j].results[i].url = heap[j].urls[i]
                  /\ heap[j].results[i].status = "error" =>
                        heap[j].results[i].error = DiagnoseFailed

\* C3: a completed job on all of whose URLs the Diagnoser failed has
\* failed = total and successful = 0.
C3_AllFailedCounts ==
    \A j \in Registered :
        (/\ lock = 0
         /\ heap[j].status = "completed"
         /\ \A i \in 1..Len(heap[j].results) :
               /\ heap[j].results[i].status = "error"
               /\ heap[j].results[i].error = DiagnoseFailed)
        => (heap[j].failed = heap[j].total /\ heap[j].successful = 0)

\* C4: create_job with an empty URL list stores no record and starts no
\* worker: no job dict ever built has an empty URL list.
C4_EmptyBatchRejected ==
    \A j \in Created : Len(heap[j].urls) > 0

\* C5: a cleanup_old_jobs step, for any max_age_hours and any reading of the
\* clock, leaves every job that is queued or processing in the registry.
C5_CleanupKeepsUnfinished ==
    [][\A id \in JobIds :
          (/\ jobs[id] # NoneRef
           /\ heap[jobs[id]].status \in Unfinished
           /\ jobs'[id] # jobs[id])
          => ~ \E m \in 0..MaxAgeHours, t \in 0..MaxClock : CleanupOldJobs(m, t)]_vars

\* C5 witness: a cleanup has removed a job while another, still queued or
\* processing, is in the registry.
C5_Witness ==
    /\ cleanupRemoved # {}
    /\ \E j \in Registered : heap[j].status \in Unfinished

\* C6: a cleanup_old_jobs step removes a completed job exactly when
\* current_time - completed_at > max_age_hours (in ticks: max_age_hours *
\* TicksPerHour); at equality it is retained.
C6_CleanupRemovesExactlyExpired ==
    [][\A m \in 0..MaxAgeHours, t \in 0..MaxClock, id \in JobIds :
          (/\ jobs[id] # NoneRef
           /\ heap[jobs[id]].status = "completed"
           /\ (jobs'[id] = NoneRef) # (t - heap[jobs[id]].completed_at > m * TicksPerHour))
          => ~ CleanupOldJobs(m, t)]_vars

\* C6 witness: the last cleanup removed a job and retained another completed
\* one.
C6_Witness ==
    /\ \E id \in cleanupRemoved : jobs[id] = NoneRef
    /\ \E j \in Registered :
          heap[j].status = "completed" /\ heap[j].job_id \notin cleanupRemoved

\* C7: cleanup_old_jobs returns the number of records it removed.
C7_CleanupReturnsCount ==
    cleanupRet # NotCalledVal => cleanupRet = IntVal(Cardinality(cleanupRemoved))

\* C8: the ids returned by any create_job calls are pairwise distinct, the
\* registry holds one record per call (until a cleanup), and a record is
\* processed by no worker but its own.
C8_DistinctIds ==
    /\ \A a \in Created, b \in Created : a # b => wid[a] # wid[b]
    /\ cleanupRet = NotCalledVal => Cardinality(Registered) = Len(heap)
    /\ \A w \in Workers : wjob[w] \in {NoneRef, w}

\* C9: the value get_job_status returned does not change while its caller
\* holds it.
C9_StatusIsSnapshot ==
    [][(held \in Created /\ held' = held) => heap'[held] = heap[held]]_vars

\* C10: get_job_status on an id that is not in the registry returns None and
\* leaves the registry and every record unchanged.
C10_UnknownIdNotFound ==
    [][\A id \in JobIds :
          (jobs[id] = NoneRef /\ GetJobStatus(id))
              => (held' = NoneRef /\ jobs' = jobs /\ heap' = heap)]_vars

\* C10 witness: get_job_status returned None after a finished job had been
\* removed from the registry.
C10_Witness ==
    /\ held = NoneRef
    /\ \E w \in Created : wpc[w] = "done" /\ jobs[wid[w]] = NoneRef

SavePreparationFailed == "save preparation failed"
StatusRank(status) ==
    CASE status = "queued" -> 1
      [] status = "processing" -> 2
      [] status = "completed" -> 3
      [] OTHER -> 0

\* C11: the status stored in the registry under a job id is one of queued,
\* processing, completed, and no step moves it back: from completed to
\* processing or queued, or from processing to queued.
C11_StatusAdvances ==
    [][\A id \in JobIds :
          (jobs[id] # NoneRef /\ jobs'[id] # NoneRef) =>
              /\ StatusRank(heap'[jobs'[id]].status) > 0
              /\ StatusRank(heap'[jobs'[id]].status) >= StatusRank(heap[jobs[id]].status)]_vars

\* C12: under fair scheduling every job create_job has built eventually has
\* status completed: no error in the per-URL body ends the worker before the
\* completion block.
C12_EveryJobCompletes ==
    \A k \in Workers :
        (k \in Created) ~> (k \in Created /\ heap[k].status = "completed")

\* C13: a failure in the result-persistence step of a URL the Diagnoser
\* succeeded on never gives that URL an error outcome nor counts it as
\* failed: no entry of results carries the error of the save preparation.
C13_SaveFailureStillSuccess ==
    \A j \in Created :
        \A i \in 1..Len(heap[j].results) :
            heap[j].results[i].status = "error" =>
                heap[j].results[i].error # SavePreparationFailed

\* C14: the observation step, whether the ObservationGenerator delivers a
\* text or fails, hands the URL on to the persistence step of the success
\* path: it never enters the per-URL handler, sets no error, and changes no
\* record (so neither failed nor errors) and nothing of the payload but the
\* optional observation field.
C14_ObservationFailureKeepsSuccess ==
    [][\A w \in Workers :
          (wpc[w] = "observe" /\ wpc'[w] # "observe") =>
              /\ wpc'[w] = "persist"
              /\ werr'[w] = werr[w]
              /\ wres'[w].saved = wres[w].saved
              /\ heap' = heap]_vars

\* C14 witness: the payload of the first URL signalled an issue, observations
\* were requested, the generator delivered nothing, and the URL has a success
\* outcome without the observation field; the second URL is not yet diagnosed.
C14_Witness ==
    \E j \in Created :
        /\ heap[j].generate_observations
        /\ budget.issues < MaxIssues
        /\ wpc[j] = "set_current" /\ widx[j] = 2
        /\ Len(heap[j].results) = 1
        /\ heap[j].results[1].status = "success"
        /\ ~ heap[j].results[1].result.technical_observation
        /\ heap[j].failed = 0 /\ heap[j].errors = <<>>

CountersInRange(job) ==
    /\ job.completed <= job.total
    /\ job.completed >= 0 /\ job.successful >= 0 /\ job.failed >= 0

\* C15: for every job, completed <= total and the counters are non-negative
\* in every state, and no step decreases completed.
C15_CompletedBounded ==
    [][\A j \in Created :
          /\ CountersInRange(heap[j])
          /\ CountersInRange(heap'[j])
          /\ heap'[j].completed >= heap[j].completed]_vars

\* C16: for every job, no step shortens results or changes an entry already
\* in it, results never has more than total entries, and it has exactly total
\* entries once the job is completed.
C16_ResultsGrowToTotal ==
    [][\A j \in Created :
          /\ Len(heap'[j].results) >= Len(heap[j].results)
          /\ SubSeq(heap'[j].results, 1, Len(heap[j].results)) = heap[j].results
          /\ Len(heap'[j].results) <= heap'[j].total
          /\ heap'[j].status = "completed" => Len(heap'[j].results) = heap'[j].total]_vars

\* the fields of a record the worker writes
Progress(job) ==
    <<job.status, job.current_url, job.completed, job.successful, job.failed,
      job.results, job.errors>>

\* C17: a step that changes the status, current_url, counters, results or
\* errors of a record is a step of the worker started for that record; and a
\* step that takes a record out of the registry is a cleanup removing a
\* completed record.
C17_OnlyOwnWorkerWrites ==
    [][/\ \A j \in Created :
             Progress(heap'[j]) # Progress(heap[j]) => wpc'[j] # wpc[j]
       /\ \A id \in JobIds :
             (jobs[id] # NoneRef /\ jobs'[id] # jobs[id]) =>
                 /\ jobs'[id] = NoneRef
                 /\ id \in cleanupRemoved'
                 /\ heap[jobs[id]].status = "completed"]_vars

\* where a worker is while it is inside a collaborator, and while it holds
\* the lock between the writes of one block
ExternalCalls == {"diagnose", "observe", "persist"}
InsideLock == {"set_completed", "ok_successful", "ok_completed", "err_failed",
               "err_completed", "err_errors", "fin_completed_at", "fin_current_url"}

\* C18: no worker holds the lock while it is inside the Diagnoser, the
\* ObservationGenerator or the persistence step; whoever holds the lock is
\* between two writes of one block and its next step is enabled, so the lock
\* comes free however long another worker's external call lasts.
C18_LockFreeDuringExternalCalls ==
    /\ \A w \in Workers : wpc[w] \in ExternalCalls => lock # w
    /\ lock # 0 => (wpc[lock] \in InsideLock /\ ENABLED WorkerNext(lock))

\* C18 witness: one worker is inside the Diagnoser while another worker holds
\* the lock, and a get_job_status call has completed.
C18_Witness ==
    \E w \in Workers, v \in Workers :
        /\ w # v
        /\ wpc[w] = "diagnose"
        /\ lock = v
        /\ held \in Created

\* C19: in every state the total of a record is the length of its urls.
C19_TotalIsUrlCount ==
    \A j \in Created : heap[j].total = Len(heap[j].urls)

\* the headers of a row that pass the URL-column test, by position (from 1)
UrlHeaders(hs) == {i \in 1..Len(hs) : IsUrlHeader(Lower(Strip(hs[i])))}

\* C20: find_url_column returns -1 when no header is a URL column name or
\* contains a URL keyword, and else the (0-based) index of the first header
\* that is or does.
C20_FindUrlColumn ==
    url_column_idx # NotCalledVal =>
        url_column_idx =
            IF UrlHeaders(headers) = {}
            THEN IntVal(0 - 1)
            ELSE IntVal((CHOOSE i \in UrlHeaders(headers) :
                            \A k \in UrlHeaders(headers) : i <= k) - 1)

\* the record as create_job builds it, but for its id, URLs, flag and start
InitialRecord(job) ==
    /\ job.status = "queued"
    /\ job.completed = 0 /\ job.successful = 0 /\ job.failed = 0
    /\ job.results = <<>> /\ job.errors = <<>>
    /\ job.current_url = NoneUrl
    /\ job.completed_at = NoneTime

\* C21: as long as the worker create_job started has not taken its first
\* step, the record in the registry under the id the call returned is the
\* initial one: queued, counters 0, results and errors empty, current_url and
\* completed_at unset.
C21_CreateStoresInitialRecord ==
    \A k \in Created :
        wpc[k] = "start" =>
            /\ jobs[wid[k]] # NoneRef
            /\ InitialRecord(heap[jobs[wid[k]]])

\* C22: no state in which the lock is free has a job with a non-empty URL
\* list in status processing with current_url unset.
C22_ProcessingHasCurrentUrl ==
    \A j \in Registered :
        (lock = 0 /\ heap[j].status = "processing" /\ Len(heap[j].urls) > 0) =>
            heap[j].current_url # NoneUrl

\* C23: for every job in the registry (in the states a caller that takes the
\* lock can see), current_url is unset when the status is queued or completed,
\* and completed_at is set exactly when the status is completed.
C23_CurrentUrlAndCompletedAt ==
    \A j \in Registered :
        lock = 0 =>
            /\ heap[j].status \in {"queued", "completed"} => heap[j].current_url = NoneUrl
            /\ (heap[j].completed_at # NoneTime) <=> (heap[j].status = "completed")

\* the {url, error} pairs of the error outcomes of results, in their order
ErrorsOf(results) ==
    LET failures == SelectSeq(results, LAMBDA r : r.status = "error")
    IN [i \in 1..Len(failures) |-> ErrorEntry(failures[i].url, failures[i].error)]

\* C24: in every state, errors is the sequence of the {url, error} pairs of
\* the error outcomes in results, and its length is failed.
C24_ErrorsMirrorResults ==
    \A j \in Created :
        /\ heap[j].errors = ErrorsOf(heap[j].results)
        /\ Len(heap[j].errors) = heap[j].failed

\* C25: a record is processed by at most one worker, so at most one Diagnoser
\* call for it is in flight, and the call for a position starts only when the
\* outcomes of all positions before it, and no other, are in results.
C25_OneWorkerPerRecord ==
    /\ \A j \in Created : Cardinality({w \in Workers : wjob[w] = j}) <= 1
    /\ \A w \in Workers :
          wpc[w] = "diagnose" => Len(heap[wjob[w]].results) = widx[w] - 1

\* C26: whenever the lock is free, every job has
\* len(results) = successful + failed = completed.
C26_CountsAgreeWhenLockFree ==
    \A j \in Created :
        lock = 0 =>
            /\ Len(heap[j].results) = heap[j].successful + heap[j].failed
            /\ heap[j].successful + heap[j].failed = heap[j].completed

\* C27: a create_job step leaves every record that is in the registry in it,
\* under its id, with all fields unchanged.
C27_CreateKeepsRecords ==
    [][Len(heap') > Len(heap) =>
          \A id \in JobIds :
              jobs[id] # NoneRef =>
                  /\ jobs'[id] = jobs[id]
                  /\ heap'[jobs[id]] = heap[jobs[id]]]_vars

\* C28: a worker step that writes to a record writes to the record the
\* registry holds under the worker's job id, and no worker finds its id
\* missing at start-up.
C28_WorkerRecordRegistered ==
    [][\A w \in Workers :
          /\ wpc'[w] # "returned"
          /\ (/\ wpc'[w] # wpc[w]
              /\ wjob'[w] # NoneRef
              /\ heap'[wjob'[w]] # heap[wjob'[w]])
             => jobs[wid[w]] = wjob'[w]]_vars

\* C29: a cleanup_old_jobs step changes no record and takes out of the
\* registry only the records it selected, and once it is done no record left
\* in the registry is selected by the same max_age_hours and current_time.
C29_CleanupOnlyRemoves ==
    [][\A m \in 0..MaxAgeHours, t \in 0..MaxClock :
          (\/ heap' # heap
           \/ \E id \in JobIds : jobs'[id] # jobs[id] /\ id \notin cleanupRemoved'
           \/ \E id \in JobIds : jobs'[id] # NoneRef /\ ToRemove(heap'[jobs'[id]], t, m))
          => ~ CleanupOldJobs(m, t)]_vars

\* C29 witness: the last cleanup removed a record and kept another, which
\* holds outcomes.
C29_Witness ==
    /\ cleanupRet = NoneVal
    /\ \E id \in cleanupRemoved : jobs[id] = NoneRef
    /\ \E j \in Registered :
          heap[j].job_id \notin cleanupRemoved /\ Len(heap[j].results) > 0

\* C30: when parse_csv_file returns, the URL list is not empty, each of its
\* elements starts with http:// or https://, and url_count is its length.
C30_ParsedUrlsUsable ==
    parsed.tag = "returned" =>
        /\ Len(parsed.urls) > 0
        /\ \A i \in 1..Len(parsed.urls) : HasProtocol(parsed.urls[i])
        /\ parsed.url_count = Len(parsed.urls)

\* C30 witness: of two data rows parse_csv_file skipped one and returned the
\* URL of the other, a cell without a protocol parse_csv_file recognises.
C30_Witness ==
    /\ parsed.tag = "returned"
    /\ parsed.total_rows = 2
    /\ parsed.urls = <<Https \o <<"H", "T", "T", "P", ":", "/", "/", "c">>>>
====
